---- MODULE Spec2Model ----
(***************************************************************************)
(* Model of the SU2 validation-run orchestrator                            *)
(* (ValidationCases/Automation.py, class SU2Automation) together with the  *)
(* behaviour of the plotting program it starts                             *)
(* (ValidationCases/Basic/2DML/SST/Configuration1/Plot.py).                *)
(*                                                                         *)
(* The state is the part of the filesystem the orchestrator reads and      *)
(* writes (the configuration directory, its sub-directories and their      *)
(* files), the operating-system processes it has started, and the local    *)
(* variables of SU2Automation.run / process_configuration.                 *)
(* File and directory names are strings; glob patterns are evaluated by    *)
(* suffix matching on the names, as pathlib does.                          *)
(***************************************************************************)
EXTENDS Integers, Sequences, FiniteSets, TLC

(***************************************************************************)
(* Bounds of the model                                                     *)
(***************************************************************************)
\* number of candidate mesh-level directory names
MaxMeshDirs == 3

\* the candidate names, in the order in which the bound admits them
MeshNamePool == <<"093", "047", "185", "370">>

MeshNames == { MeshNamePool[i] : i \in 1..MaxMeshDirs }

\* number of invocations of main() on the same configuration directory
MaxInvocations == 2

\* the longest configuration file, in lines written to it
MaxLines == 2

\* number of places in which the initial configuration directory differs from
\* the reference layout: a sub-directory whose contents are not
\* ReferenceLayout, a hidden sub-directory, files other than ReferenceRoot
MaxDeviations == 1

\* a hidden sub-directory (name starts with '.')
HiddenNames == { ".cache" }

\* the sub-directory Plot.py creates (Plot.py:183, Plot.py:114)
PlotsDir == "plots"

DirNames == MeshNames \cup HiddenNames \cup { PlotsDir }

(***************************************************************************)
(* Strings                                                                 *)
(***************************************************************************)
StartsWith(s, p) == Len(s) >= Len(p) /\ SubSeq(s, 1, Len(p)) = p

EndsWith(s, p) == Len(s) >= Len(p) /\ SubSeq(s, Len(s) - Len(p) + 1, Len(s)) = p

\* Path.glob("*<ext>") on a directory whose entries are names
GlobExt(names, ext) == { f \in names : EndsWith(f, ext) }

\* Path.glob("<literal name>")
GlobName(names, n) == { f \in names : f = n }

(***************************************************************************)
(* SU2Automation.__init__                                                  *)
(***************************************************************************)
mesh_extensions == <<".su2", ".mesh", ".msh">>

restart_extensions == <<".dat", ".csv">>

\* len([f for ext in exts for f in dir.glob("*"+ext)]): one term per extension
RECURSIVE CountByExt(_, _, _)
CountByExt(names, exts, i) ==
    IF i > Len(exts) THEN 0
    ELSE Cardinality(GlobExt(names, exts[i])) + CountByExt(names, exts, i + 1)

(***************************************************************************)
(* Contents the model draws for a sub-directory before the invocation      *)
(***************************************************************************)
ReferenceLayout == {"Config.cfg", "mesh.su2", "restart.dat"}

DirTemplates ==
    { ReferenceLayout,
      {"Config.cfg", "mesh.su2", "restart.csv"},
      {"mesh.su2", "restart.dat"},
      {"Config.cfg", "restart.dat"},
      {"Config.cfg", "mesh.su2", "mesh.msh", "restart.dat"},
      {"Config.cfg", "mesh.su2"},
      {"Config.cfg", "mesh.su2", "restart.dat", "restart.csv"} }

\* files of the configuration directory itself before the invocation
ReferenceRoot == {"Plot.py", "exp_data.dat"}

RootTemplates ==
    { ReferenceRoot,
      {"exp_data.dat"},
      {"Plot.py", "exp_data.dat", "old_profile.png"} }

\* what the solver may have written into its working directory when it ends:
\* nothing, the history, the volume solution, or both
SolverOutputs ==
    { {}, {"history.csv"}, {"vol_solution.vtu"}, {"history.csv", "vol_solution.vtu"} }

\* what a solver that does not end normally may have written by then
PartialOutputs == { {}, {"history.csv"} }

\* images Plot.py saves (one name stands for the profile_x*mm.png family)
PlotImages == {"profile_x1mm.png"}

\* exit_code while the orchestrator process has not exited
NoExit == -1

VARIABLES
    config_exists,   \* config_path.exists()
    root_files,      \* names of the regular files in config_path
    subdirs,         \* names of the sub-directories of config_path
    files,           \* files[d]: names of the files in sub-directory d
    pc,              \* position of the orchestrator process
    is_valid,        \* process_configuration: is_valid ("unset" before the call)
    mesh_dirs,       \* process_configuration: mesh_dirs
    idx,             \* position of the for loop over mesh_dirs (1-based)
    success_count,   \* process_configuration: success_count
    procs,           \* running OS processes started for this invocation
    sim_result,      \* sim_result[d]: what run_su2_simulation(d) returned
    solver_end,      \* solver_end[d]: how the solver process for d ended
    produced,        \* produced[d]: files the solver for d wrote in this run
    log_written,     \* log_written[d]: logs written by run_su2_simulation(d), with their streams
    launches,        \* sequence of mesh directories a solver was started in
    plot_launches,   \* number of times Plot.py was started
    plot_end,        \* how the plot process ended
    plot_produced,   \* plot_produced: images Plot.py wrote, as <<dir, name>>
    plot_result,     \* what run_plot_script returned
    exit_code,       \* exit status of the orchestrator process
    invocation,      \* number of the current invocation of main() (1-based)
    earlier_files,   \* earlier_files[d]: files written into d by earlier invocations
    completed_dirs,  \* mesh_dirs of the previous invocation if its plot process exited 0
    cfg_pc,          \* position of the update_config_from_yaml.py script
    cfg_before,      \* lines of the file at cfg_path before the script ran
    cfg_lines,       \* lines of the file at cfg_path
    new_options,     \* update_cfg_file: new_options (data['options'])
    yaml_doc         \* the options section of the YAML document extract_config.py printed

vars == << config_exists, root_files, subdirs, files, pc, is_valid, mesh_dirs,
           idx, success_count, procs, sim_result, solver_end, produced,
           log_written, launches, plot_launches, plot_end, plot_produced,
           plot_result, exit_code, invocation, earlier_files,
           completed_dirs, cfg_pc,
           cfg_before, cfg_lines, new_options, yaml_doc >>

fsVars == << config_exists, root_files, subdirs, files >>

simVars == << sim_result, solver_end, produced, log_written >>

plotVars == << plot_launches, plot_end, plot_produced, plot_result >>

rerunVars == << invocation, earlier_files, completed_dirs >>

cfgVars == << cfg_pc, cfg_before, cfg_lines, new_options, yaml_doc >>

(***************************************************************************)
(* validate_directory_structure                                            *)
(***************************************************************************)
\* variant: the name filter is missing
NonHidden_KeepsHidden(listing, i) == listing

\* d.is_dir() and not d.name.startswith('.'), in enumeration order
RECURSIVE NonHidden(_, _)
NonHidden(listing, i) ==
    IF i > Len(listing) THEN << >>
    ELSE IF ~StartsWith(listing[i], ".")
         THEN << listing[i] >> \o NonHidden(listing, i + 1)
         ELSE NonHidden(listing, i + 1)

\* variant: a failing directory returns the directories validated so far
RECURSIVE ValidateLoop_Partial(_, _, _, _)
ValidateLoop_Partial(dirs, i, valid, fs) ==
    IF i > Len(dirs) THEN [ok |-> TRUE, dirs |-> valid]
    ELSE IF \/ Cardinality(GlobName(fs[dirs[i]], "Config.cfg")) # 1
            \/ CountByExt(fs[dirs[i]], mesh_extensions, 1) # 1
            \/ CountByExt(fs[dirs[i]], restart_extensions, 1) # 1
         THEN [ok |-> FALSE, dirs |-> valid]
    ELSE ValidateLoop_Partial(dirs, i + 1, Append(valid, dirs[i]), fs)

\* the for loop over mesh_dirs: any count other than one returns (False, [])
RECURSIVE ValidateLoop(_, _, _, _)
ValidateLoop(dirs, i, valid, fs) ==
    IF i > Len(dirs) THEN [ok |-> TRUE, dirs |-> valid]
    ELSE IF Cardinality(GlobName(fs[dirs[i]], "Config.cfg")) # 1
         THEN [ok |-> FALSE, dirs |-> << >>]
    ELSE IF CountByExt(fs[dirs[i]], mesh_extensions, 1) # 1
         THEN [ok |-> FALSE, dirs |-> << >>]
    ELSE IF CountByExt(fs[dirs[i]], restart_extensions, 1) # 1
         THEN [ok |-> FALSE, dirs |-> << >>]
    ELSE ValidateLoop(dirs, i + 1, Append(valid, dirs[i]), fs)

\* listing is config_dir.iterdir() restricted to directories
validate_directory_structure(root, listing, fs) ==
    IF "Plot.py" \notin root THEN [ok |-> FALSE, dirs |-> << >>]
    ELSE IF NonHidden(listing, 1) = << >> THEN [ok |-> FALSE, dirs |-> << >>]
    ELSE ValidateLoop(NonHidden(listing, 1), 1, << >>, fs)

\* the orders in which the filesystem may enumerate a set of names
RECURSIVE Enumerations(_)
Enumerations(S) ==
    IF S = {} THEN { << >> }
    ELSE UNION { { << x >> \o rest : rest \in Enumerations(S \ {x}) } : x \in S }

(***************************************************************************)
(* Initial states: a filesystem, and the process about to call run()       *)
(***************************************************************************)
Init ==
    /\ \/ /\ config_exists = FALSE
          /\ root_files = {}
          /\ subdirs = {}
          /\ files = [d \in DirNames |-> {}]
       \/ /\ config_exists = TRUE
          /\ root_files \in RootTemplates
          /\ \E content \in [MeshNames -> DirTemplates \cup { {} }],
                hidden \in SUBSET HiddenNames :
               /\ Cardinality({ d \in MeshNames : content[d] \notin { {}, ReferenceLayout } })
                    + Cardinality(hidden)
                    + (IF root_files = ReferenceRoot THEN 0 ELSE 1) <= MaxDeviations
               /\ subdirs = { d \in MeshNames : content[d] # {} } \cup hidden
               /\ files = [d \in DirNames |-> IF d \in MeshNames THEN content[d] ELSE {}]
    /\ pc = "run"
    /\ is_valid = "unset"
    /\ mesh_dirs = << >>
    /\ idx = 0
    /\ success_count = 0
    /\ procs = {}
    /\ sim_result = [d \in DirNames |-> "none"]
    /\ solver_end = [d \in DirNames |-> "none"]
    /\ produced = [d \in DirNames |-> {}]
    /\ log_written = [d \in DirNames |-> {}]
    /\ launches = << >>
    /\ plot_launches = 0
    /\ plot_end = "none"
    /\ plot_produced = {}
    /\ plot_result = "none"
    /\ exit_code = NoExit
    /\ invocation = 1
    /\ earlier_files = [d \in DirNames |-> {}]
    /\ completed_dirs = << >>
    /\ cfg_pc = "idle"
    /\ cfg_before = << >>
    /\ cfg_lines = << >>
    /\ new_options = << >>
    /\ yaml_doc = {}

(***************************************************************************)
(* OS processes started by subprocess.run                                  *)
(***************************************************************************)
SolverProc(d) == [dir |-> d, kind |-> "solver"]

\* a process forked by the solver process (a descendant of it)
ChildProc(d) == [dir |-> d, kind |-> "child"]

PlotProc == [dir |-> "", kind |-> "plot"]

\* subprocess.run on timeout: process.kill(); process.wait() on the child it started
KillOnTimeout(running, d) == running \ { SolverProc(d) }

\* subprocess.run without timeout expiry: communicate() returns at end-of-file
\* on the stdout/stderr pipes, which every process holding them has then left
ReapOnExit(running, d) == running \ { SolverProc(d), ChildProc(d) }

(***************************************************************************)
(* SU2Automation.run: the path check                                       *)
(***************************************************************************)
RunCheckPath ==
    /\ pc = "run"
    /\ IF ~config_exists
       THEN /\ pc' = "exited"
            /\ exit_code' = 1
       ELSE /\ pc' = "validating"
            /\ exit_code' = exit_code
    /\ UNCHANGED << rerunVars, cfgVars >>
    /\ UNCHANGED << fsVars, is_valid, mesh_dirs, idx, success_count, procs,
                    simVars, launches, plotVars >>

(***************************************************************************)
(* process_configuration: validation, and the return when it fails         *)
(***************************************************************************)
\* variant: the validator leaves a report file in the configuration directory
Validate_LeavesReport ==
    /\ pc = "validating"
    /\ \E listing \in Enumerations(subdirs) :
         LET r == validate_directory_structure(root_files, listing, files) IN
         /\ is_valid' = IF r.ok THEN "True" ELSE "False"
         /\ mesh_dirs' = r.dirs
         /\ IF ~r.ok
            THEN /\ pc' = "exited"
                 /\ exit_code' = 1
                 /\ UNCHANGED << idx, success_count >>
            ELSE /\ pc' = "loop"
                 /\ idx' = 1
                 /\ success_count' = 0
                 /\ exit_code' = exit_code
    /\ root_files' = root_files \cup {"validation.log"}
    /\ UNCHANGED << rerunVars, cfgVars >>
    /\ UNCHANGED << config_exists, subdirs, files, procs, simVars, launches, plotVars >>

Validate ==
    /\ pc = "validating"
    /\ \E listing \in Enumerations(subdirs) :
         LET r == validate_directory_structure(root_files, listing, files) IN
         /\ is_valid' = IF r.ok THEN "True" ELSE "False"
         /\ mesh_dirs' = r.dirs
         /\ IF ~r.ok
            THEN /\ pc' = "exited"
                 /\ exit_code' = 1
                 /\ UNCHANGED << idx, success_count >>
            ELSE /\ pc' = "loop"
                 /\ idx' = 1
                 /\ success_count' = 0
                 /\ exit_code' = exit_code
    /\ UNCHANGED << rerunVars, cfgVars >>
    /\ UNCHANGED << fsVars, procs, simVars, launches, plotVars >>

(***************************************************************************)
(* run_su2_simulation: subprocess.run starts SU2_CFD in mesh_dir           *)
(***************************************************************************)
LaunchSolver ==
    /\ pc = "loop"
    /\ idx <= Len(mesh_dirs)
    /\ procs' = procs \cup { SolverProc(mesh_dirs[idx]) }
    /\ launches' = Append(launches, mesh_dirs[idx])
    /\ pc' = "solver"
    /\ UNCHANGED << rerunVars, cfgVars >>
    /\ UNCHANGED << fsVars, is_valid, mesh_dirs, idx, success_count, simVars,
                    plotVars, exit_code >>

\* the running solver forks a helper process
SolverFork ==
    /\ pc = "solver"
    /\ SolverProc(mesh_dirs[idx]) \in procs
    /\ ChildProc(mesh_dirs[idx]) \notin procs
    /\ procs' = procs \cup { ChildProc(mesh_dirs[idx]) }
    /\ UNCHANGED << rerunVars, cfgVars >>
    /\ UNCHANGED << fsVars, pc, is_valid, mesh_dirs, idx, success_count,
                    simVars, launches, plotVars, exit_code >>

\* variant: a failed run does not end the loop (run all, report at the end)
LoopStep_RunAll(ret) ==
    /\ success_count' = IF ret THEN success_count + 1 ELSE success_count
    /\ idx' = idx + 1
    /\ pc' = "loop"
    /\ exit_code' = exit_code

\* variant: a failed run is attempted again
LoopStep_Retry(ret) ==
    /\ success_count' = IF ret THEN success_count + 1 ELSE success_count
    /\ idx' = IF ret THEN idx + 1 ELSE idx
    /\ pc' = "loop"
    /\ exit_code' = exit_code

\* variant: the counter is incremented outside the if
LoopStep_CountsAll(ret) ==
    /\ success_count' = success_count + 1
    /\ idx' = idx + 1
    /\ pc' = "loop"
    /\ exit_code' = exit_code

\* variant: a successful run is not counted
LoopStep_ForgetsCount(ret) ==
    IF ret
    THEN /\ idx' = idx + 1
         /\ pc' = "loop"
         /\ UNCHANGED << success_count, exit_code >>
    ELSE /\ pc' = "exited"
         /\ exit_code' = 1
         /\ UNCHANGED << idx, success_count >>

\* the for loop of process_configuration reacting to run_su2_simulation's result
LoopStep(ret) ==
    IF ret
    THEN /\ success_count' = success_count + 1
         /\ idx' = idx + 1
         /\ pc' = "loop"
         /\ exit_code' = exit_code
    ELSE /\ pc' = "exited"
         /\ exit_code' = 1
         /\ UNCHANGED << idx, success_count >>

\* the log files run_su2_simulation writes, with the captured streams in them
OutputLog == [file |-> "su2_output.log", streams |-> {"stdout"}]

TimeoutLog == [file |-> "su2_timeout.log", streams |-> {"stdout"}]

\* variant: only the captured stdout is written
ErrorLog_StdoutOnly == [file |-> "su2_error.log", streams |-> {"stdout"}]

ErrorLog == [file |-> "su2_error.log", streams |-> {"stdout", "stderr"}]

\* output_files = mesh_dir.glob("*.vtu") + mesh_dir.glob("*.csv")
output_files(names) == GlobExt(names, ".vtu") \cup GlobExt(names, ".csv")

\* SU2_CFD exits 0 having written outs; run_su2_simulation logs and verifies
SolverExitZero ==
    /\ pc = "solver"
    /\ \E outs \in SolverOutputs :
         LET d == mesh_dirs[idx]
             after == files[d] \cup outs \cup { OutputLog.file }
             ret == output_files(after) # {}
         IN /\ files' = [files EXCEPT ![d] = after]
            /\ produced' = [produced EXCEPT ![d] = outs]
            /\ log_written' = [log_written EXCEPT ![d] = { OutputLog }]
            /\ solver_end' = [solver_end EXCEPT ![d] = "exit0"]
            /\ sim_result' = [sim_result EXCEPT ![d] = IF ret THEN "True" ELSE "False"]
            /\ procs' = ReapOnExit(procs, d)
            /\ LoopStep(ret)
    /\ UNCHANGED << rerunVars, cfgVars >>
    /\ UNCHANGED << config_exists, root_files, subdirs, is_valid, mesh_dirs,
                    launches, plotVars >>

\* SU2_CFD exits non-zero: CalledProcessError, su2_error.log, return False
SolverExitNonZero ==
    /\ pc = "solver"
    /\ \E outs \in PartialOutputs :
         LET d == mesh_dirs[idx] IN
         /\ files' = [files EXCEPT ![d] = @ \cup outs \cup { ErrorLog.file }]
         /\ produced' = [produced EXCEPT ![d] = outs]
         /\ log_written' = [log_written EXCEPT ![d] = { ErrorLog }]
         /\ solver_end' = [solver_end EXCEPT ![d] = "nonzero"]
         /\ sim_result' = [sim_result EXCEPT ![d] = "False"]
         /\ procs' = ReapOnExit(procs, d)
         /\ LoopStep(FALSE)
    /\ UNCHANGED << rerunVars, cfgVars >>
    /\ UNCHANGED << config_exists, root_files, subdirs, is_valid, mesh_dirs,
                    launches, plotVars >>

\* SU2_CFD runs past su2_timeout: TimeoutExpired.
\* has_stdout: e.stdout is non-empty.  as_text: e.stdout is str (it is bytes
\* on POSIX, where f.write(e.stdout) on the text-mode file raises TypeError
\* after open() has created the file, and the exception leaves run()).
SolverTimeout ==
    /\ pc = "solver"
    /\ \E outs \in PartialOutputs, has_stdout \in BOOLEAN, as_text \in BOOLEAN :
         LET d == mesh_dirs[idx] IN
         /\ has_stdout \/ as_text
         /\ files' = [files EXCEPT ![d] =
                        @ \cup outs \cup (IF has_stdout THEN { TimeoutLog.file } ELSE {})]
         /\ produced' = [produced EXCEPT ![d] = outs]
         /\ log_written' = [log_written EXCEPT ![d] =
                        IF ~has_stdout THEN {}
                        ELSE IF as_text THEN { TimeoutLog }
                        ELSE { [TimeoutLog EXCEPT !.streams = {}] }]
         /\ solver_end' = [solver_end EXCEPT ![d] = "timeout"]
         /\ sim_result' = [sim_result EXCEPT ![d] =
                        IF has_stdout /\ ~as_text THEN "raised" ELSE "False"]
         /\ procs' = KillOnTimeout(procs, d)
         /\ LoopStep(FALSE)
    /\ UNCHANGED << rerunVars, cfgVars >>
    /\ UNCHANGED << config_exists, root_files, subdirs, is_valid, mesh_dirs,
                    launches, plotVars >>

(***************************************************************************)
(* process_configuration after the loop; run_plot_script starts Plot.py    *)
(***************************************************************************)
LoopExit ==
    /\ pc = "loop"
    /\ idx > Len(mesh_dirs)
    /\ IF success_count = Len(mesh_dirs)
       THEN /\ procs' = procs \cup { PlotProc }
            /\ plot_launches' = plot_launches + 1
            /\ pc' = "plotting"
            /\ exit_code' = exit_code
       ELSE /\ pc' = "exited"
            /\ exit_code' = 1
            /\ UNCHANGED << procs, plot_launches >>
    /\ UNCHANGED << rerunVars, cfgVars >>
    /\ UNCHANGED << fsVars, is_valid, mesh_dirs, idx, success_count, simVars,
                    launches, plot_end, plot_produced, plot_result >>

\* plot_files = config_dir.glob("*.png") + config_dir.glob("*.pdf")
plot_files(names) == GlobExt(names, ".png") \cup GlobExt(names, ".pdf")

\* Plot.py process_simulation_data: a mesh directory with vol_solution.vtu
HasSimulationData ==
    \E d \in subdirs : ~StartsWith(d, ".") /\ "vol_solution.vtu" \in files[d]

\* Plot.py exits 0.  made_dir: create_plots was reached (os.makedirs);
\* imgs: the images savefig wrote into plots/ before the end or before an
\* exception that the __main__ block catches and prints.
PlotExitZero ==
    /\ pc = "plotting"
    /\ \E made_dir \in BOOLEAN, imgs \in SUBSET PlotImages :
         /\ imgs # {} => made_dir
         /\ made_dir => HasSimulationData
         /\ subdirs' = IF made_dir THEN subdirs \cup { PlotsDir } ELSE subdirs
         /\ files' = [files EXCEPT ![PlotsDir] = @ \cup imgs]
         /\ plot_produced' = { << PlotsDir, f >> : f \in imgs }
         /\ root_files' = root_files \cup {"plot_output.log"}
         /\ plot_end' = "exit0"
         /\ plot_result' = IF plot_files(root_files') # {} THEN "True" ELSE "False"
         /\ exit_code' = IF plot_files(root_files') # {} THEN 0 ELSE 1
    /\ procs' = procs \ { PlotProc }
    /\ pc' = "exited"
    /\ UNCHANGED << rerunVars, cfgVars >>
    /\ UNCHANGED << config_exists, is_valid, mesh_dirs, idx, success_count,
                    simVars, launches, plot_launches >>

\* Plot.py exits non-zero (sys.exit(1), or an error outside its try block)
PlotExitNonZero ==
    /\ pc = "plotting"
    /\ root_files' = root_files \cup {"plot_error.log"}
    /\ plot_end' = "nonzero"
    /\ plot_result' = "False"
    /\ exit_code' = 1
    /\ procs' = procs \ { PlotProc }
    /\ pc' = "exited"
    /\ UNCHANGED << rerunVars, cfgVars >>
    /\ UNCHANGED << config_exists, subdirs, files, is_valid, mesh_dirs, idx,
                    success_count, simVars, launches, plot_launches,
                    plot_produced >>

Next ==
    \/ RunCheckPath
    \/ Validate
    \/ LaunchSolver
    \/ SolverFork
    \/ SolverExitZero
    \/ SolverExitNonZero
    \/ SolverTimeout
    \/ LoopExit
    \/ PlotExitZero
    \/ PlotExitNonZero

Spec == Init /\ [][Next]_vars

(***************************************************************************)
(* main() is run again on the same configuration directory: a new process  *)
(* with fresh locals; the filesystem is as the earlier invocation left it. *)
(***************************************************************************)
Reinvoke ==
    /\ pc = "exited"
    /\ invocation < MaxInvocations
    /\ invocation' = invocation + 1
    /\ earlier_files' =
         [d \in DirNames |->
            earlier_files[d] \cup produced[d] \cup { l.file : l \in log_written[d] }
              \cup { im[2] : im \in { x \in plot_produced : x[1] = d } }]
    /\ completed_dirs' = IF plot_end = "exit0" THEN mesh_dirs ELSE << >>
    /\ pc' = "run"
    /\ is_valid' = "unset"
    /\ mesh_dirs' = << >>
    /\ idx' = 0
    /\ success_count' = 0
    /\ procs' = {}
    /\ sim_result' = [d \in DirNames |-> "none"]
    /\ solver_end' = [d \in DirNames |-> "none"]
    /\ produced' = [d \in DirNames |-> {}]
    /\ log_written' = [d \in DirNames |-> {}]
    /\ launches' = << >>
    /\ plot_launches' = 0
    /\ plot_end' = "none"
    /\ plot_produced' = {}
    /\ plot_result' = "none"
    /\ exit_code' = NoExit
    /\ UNCHANGED << fsVars, cfgVars >>

NextRerun == Next \/ Reinvoke

SpecRerun == Init /\ [][NextRerun]_vars

(***************************************************************************)
(* .github/scripts/update_config_from_yaml.py                              *)
(*                                                                         *)
(* A configuration file is the sequence of lines that iterating over the   *)
(* open file yields (each with its line terminator, the last one possibly  *)
(* without).  The options are a mapping of keys to single-line scalars.    *)
(***************************************************************************)
LinePool ==
    { "K=1\n", " K = 2\n", "%K=1\n", " % J=2\n", "J=a=b\n", "text\n", "\n",
      "K=3", "L=5\n", "=7\n", "KK=1\n", "J=NO\n", "L=\n" }

OptionKeys == { "K", "J" }

OptionValues == { "9", "x=y" }

OptionMappings == UNION { [ks -> OptionValues] : ks \in SUBSET OptionKeys }

Whitespace == { " ", "\t", "\n" }

\* index of the first occurrence of the character ch in s, 0 when there is none
FirstIndex(s, ch) ==
    IF \E i \in 1..Len(s) : SubSeq(s, i, i) = ch
    THEN CHOOSE i \in 1..Len(s) :
           /\ SubSeq(s, i, i) = ch
           /\ \A j \in 1..(i - 1) : SubSeq(s, j, j) # ch
    ELSE 0

\* str.strip()
RECURSIVE Strip(_)
Strip(s) ==
    IF Len(s) = 0 THEN s
    ELSE IF SubSeq(s, 1, 1) \in Whitespace THEN Strip(SubSeq(s, 2, Len(s)))
    ELSE IF SubSeq(s, Len(s), Len(s)) \in Whitespace THEN Strip(SubSeq(s, 1, Len(s) - 1))
    ELSE s

\* for line in f: the text cut after every line terminator
RECURSIVE readlines(_)
readlines(text) ==
    IF Len(text) = 0 THEN << >>
    ELSE LET n == FirstIndex(text, "\n") IN
         IF n = 0 THEN << text >>
         ELSE << SubSeq(text, 1, n) >> \o readlines(SubSeq(text, n + 1, Len(text)))

\* f.writelines(lines): the lines one after the other, nothing added
RECURSIVE writelines(_)
writelines(lines) ==
    IF lines = << >> THEN ""
    ELSE Head(lines) \o writelines(Tail(lines))

\* line.split('=')[0].strip()
KeyOf(line) ==
    LET n == FirstIndex(line, "=") IN
    Strip(IF n = 0 THEN line ELSE SubSeq(line, 1, n - 1))

\* '=' in line and not line.strip().startswith('%')
IsOptionLine(line) == FirstIndex(line, "=") # 0 /\ ~StartsWith(Strip(line), "%")

\* variant: the replacement line is written without its line terminator
UpdateLine_NoNewline(line, options) ==
    IF IsOptionLine(line) /\ KeyOf(line) \in DOMAIN options
    THEN KeyOf(line) \o " = " \o options[KeyOf(line)]
    ELSE line

\* the body of the loop over the lines of the file
UpdateLine(line, options) ==
    IF IsOptionLine(line) /\ KeyOf(line) \in DOMAIN options
    THEN KeyOf(line) \o " = " \o options[KeyOf(line)] \o "\n"
    ELSE line

update_cfg_file(options) ==
    /\ cfg_pc \in {"idle", "extracted"}
    /\ new_options' = options
    /\ cfg_before' = cfg_lines
    /\ cfg_lines' =
         readlines(writelines([i \in 1..Len(cfg_lines) |-> UpdateLine(cfg_lines[i], options)]))
    /\ cfg_pc' = "updated"
    /\ UNCHANGED yaml_doc
    /\ UNCHANGED << fsVars, pc, is_valid, mesh_dirs, idx, success_count, procs,
                    simVars, launches, plotVars, exit_code, rerunVars >>

(***************************************************************************)
(* .github/scripts/extract_config.py                                       *)
(***************************************************************************)
\* the test of the loop of parse_su2_config, on the stripped line
IsParsedOption(line) ==
    LET stripped == Strip(line) IN
    ~(Len(stripped) = 0 \/ StartsWith(stripped, "%") \/ FirstIndex(stripped, "=") = 0)

\* key of key, val = map(str.strip, line.split("=", 1))
ParseKey(line) ==
    LET stripped == Strip(line) IN
    Strip(SubSeq(stripped, 1, FirstIndex(stripped, "=") - 1))

\* val of key, val = map(str.strip, line.split("=", 1))
ParseVal(line) ==
    LET stripped == Strip(line) IN
    Strip(SubSeq(stripped, FirstIndex(stripped, "=") + 1, Len(stripped)))

\* the dictionary parse_su2_config returns: a later line replaces an earlier
\* one with the same key
parse_su2_config(lines) ==
    LET opt == { i \in 1..Len(lines) : IsParsedOption(lines[i]) }
        last(k) == CHOOSE i \in opt :
                     /\ ParseKey(lines[i]) = k
                     /\ \A j \in opt : ParseKey(lines[j]) = k => j <= i
    IN [k \in { ParseKey(lines[i]) : i \in opt } |-> ParseVal(lines[last(k)])]

(***************************************************************************)
(* The YAML document between the two scripts: yaml.dump writes a string    *)
(* as a plain scalar unless a plain scalar with that text would be read as *)
(* something else than a string; yaml.safe_load reads a plain scalar as    *)
(* the type its text resolves to.                                          *)
(***************************************************************************)
YamlTrue == { "yes", "Yes", "YES", "true", "True", "TRUE", "on", "On", "ON" }

YamlFalse == { "no", "No", "NO", "false", "False", "FALSE", "off", "Off", "OFF" }

YamlNull == { "", "~", "null", "Null", "NULL" }

Digits == { "0", "1", "2", "3", "4", "5", "6", "7", "8", "9" }

\* a decimal integer without sign and without leading zero
IsDecimal(text) ==
    /\ Len(text) > 0
    /\ \A i \in 1..Len(text) : SubSeq(text, i, i) \in Digits
    /\ Len(text) = 1 \/ SubSeq(text, 1, 1) # "0"

\* the type a plain scalar resolves to
ResolveTag(text) ==
    IF text \in YamlNull THEN "null"
    ELSE IF text \in YamlTrue \cup YamlFalse THEN "bool"
    ELSE IF IsDecimal(text) THEN "int"
    ELSE "str"

\* variant: every string is written as a plain scalar
yaml_dump_Plain(text) == [quoted |-> FALSE, text |-> text]

\* yaml.dump of a string
yaml_dump(text) == [quoted |-> ResolveTag(text) # "str", text |-> text]

\* yaml.safe_load of a scalar: the type of the object and its str()
safe_load(scalar) ==
    IF scalar.quoted THEN [type |-> "str", text |-> scalar.text]
    ELSE LET tag == ResolveTag(scalar.text) IN
         [type |-> tag,
          text |-> CASE tag = "bool" -> (IF scalar.text \in YamlTrue THEN "True" ELSE "False")
                     [] tag = "null" -> "None"
                     [] OTHER -> scalar.text]

\* the options mapping as yaml.dump prints it
DumpOptions(options) ==
    { [key |-> yaml_dump(k), val |-> yaml_dump(options[k])] : k \in DOMAIN options }

\* data['options'] as update_cfg_file uses it: a key of a line, a string, is
\* in the mapping if a key of the document was read as that string; the
\* value is formatted into the line by str()
LoadOptions(doc) ==
    LET entries == { [key |-> safe_load(e.key), val |-> safe_load(e.val)] : e \in doc }
        strs == { e \in entries : e.key.type = "str" }
    IN [k \in { e.key.text : e \in strs } |->
          (CHOOSE e \in strs : e.key.text = k).val.text]

\* main of extract_config.py: the parsed options are printed as YAML
extract_config ==
    /\ cfg_pc = "idle"
    /\ yaml_doc' = DumpOptions(parse_su2_config(cfg_lines))
    /\ cfg_pc' = "extracted"
    /\ UNCHANGED << cfg_before, cfg_lines, new_options >>
    /\ UNCHANGED << fsVars, pc, is_valid, mesh_dirs, idx, success_count, procs,
                    simVars, launches, plotVars, exit_code, rerunVars >>

\* update_cfg_file run on a YAML file written for it
UpdateFromRequest ==
    /\ cfg_pc = "idle"
    /\ \E options \in OptionMappings : update_cfg_file(options)

\* update_cfg_file run on the document extract_config.py printed
UpdateFromExtract ==
    /\ cfg_pc = "extracted"
    /\ update_cfg_file(LoadOptions(yaml_doc))

InitCfg ==
    /\ config_exists = FALSE
    /\ root_files = {}
    /\ subdirs = {}
    /\ files = [d \in DirNames |-> {}]
    /\ pc = "run"
    /\ is_valid = "unset"
    /\ mesh_dirs = << >>
    /\ idx = 0
    /\ success_count = 0
    /\ procs = {}
    /\ sim_result = [d \in DirNames |-> "none"]
    /\ solver_end = [d \in DirNames |-> "none"]
    /\ produced = [d \in DirNames |-> {}]
    /\ log_written = [d \in DirNames |-> {}]
    /\ launches = << >>
    /\ plot_launches = 0
    /\ plot_end = "none"
    /\ plot_produced = {}
    /\ plot_result = "none"
    /\ exit_code = NoExit
    /\ invocation = 1
    /\ earlier_files = [d \in DirNames |-> {}]
    /\ completed_dirs = << >>
    /\ cfg_pc = "idle"
    /\ cfg_before = << >>
    /\ new_options = << >>
    /\ yaml_doc = {}
    /\ \E n \in 1..MaxLines :
         \E written \in [1..n -> LinePool] :
            cfg_lines = readlines(writelines(written))

NextCfg == UpdateFromRequest \/ extract_config \/ UpdateFromExtract

SpecCfg == InitCfg /\ [][NextCfg]_vars

(***************************************************************************)
(* The configuration file of the mesh directory that is next in the loop   *)
(* is removed by another program after validation.                         *)
(***************************************************************************)
ConfigRemoved ==
    /\ pc = "loop"
    /\ idx <= Len(mesh_dirs)
    /\ "Config.cfg" \in files[mesh_dirs[idx]]
    /\ files' = [files EXCEPT ![mesh_dirs[idx]] = @ \ {"Config.cfg"}]
    /\ UNCHANGED << config_exists, root_files, subdirs, pc, is_valid, mesh_dirs,
                    idx, success_count, procs, simVars, launches, plotVars,
                    exit_code, rerunVars, cfgVars >>

NextConfigLost == Next \/ ConfigRemoved

SpecConfigLost == Init /\ [][NextConfigLost]_vars

TypeOK ==
    /\ pc \in {"run", "validating", "loop", "solver", "plotting", "exited"}
    /\ exit_code \in {NoExit, 0, 1}
    /\ subdirs \subseteq DirNames
    /\ success_count \in 0..Len(mesh_dirs)
    /\ is_valid \in {"unset", "True", "False"}

(***************************************************************************)
(* Vocabulary of the properties                                            *)
(***************************************************************************)
Range(s) == { s[i] : i \in 1..Len(s) }

\* the non-hidden sub-directories of the configuration directory
NonHiddenDirs == { d \in subdirs : ~StartsWith(d, ".") }

\* number of files of a directory that carry one of the extensions
KindCount(d, exts) ==
    Cardinality({ f \in files[d] : \E i \in 1..Len(exts) : EndsWith(f, exts[i]) })

\* one Config.cfg, one mesh file and one restart file in every non-hidden
\* sub-directory, and at least one such sub-directory
StrictLayout ==
    /\ NonHiddenDirs # {}
    /\ \A d \in NonHiddenDirs :
         /\ "Config.cfg" \in files[d]
         /\ KindCount(d, mesh_extensions) = 1
         /\ KindCount(d, restart_extensions) = 1

\* validation has returned and nothing has been started since
JustValidated == is_valid # "unset" /\ launches = << >>

\* run_su2_simulation(d) did not report success
RunFailed(d) == sim_result[d] \in {"False", "raised"}

\* int(name) for a name made of decimal digits
DigitValue(c) ==
    CASE c = "0" -> 0 [] c = "1" -> 1 [] c = "2" -> 2 [] c = "3" -> 3 [] c = "4" -> 4
      [] c = "5" -> 5 [] c = "6" -> 6 [] c = "7" -> 7 [] c = "8" -> 8 [] c = "9" -> 9

RECURSIVE NumericValue(_)
NumericValue(name) ==
    IF Len(name) = 0 THEN 0
    ELSE 10 * NumericValue(SubSeq(name, 1, Len(name) - 1))
         + DigitValue(SubSeq(name, Len(name), Len(name)))

(***************************************************************************)
(* C1: when validate_directory_structure fails, the validator has returned *)
(* an empty list of mesh directories, no solver and no plot process has    *)
(* been launched in the invocation, and the process has exited with code 1.*)
(***************************************************************************)
C1_ValidationFailureAborts ==
    is_valid = "False" =>
        /\ mesh_dirs = << >>
        /\ launches = << >>
        /\ plot_launches = 0
        /\ procs = {}
        /\ pc = "exited"
        /\ exit_code = 1

\* validation failed although Plot.py and a directory of the reference
\* layout are there: some directory may have passed before the failing one
C1_Witness ==
    /\ is_valid = "False"
    /\ "Plot.py" \in root_files
    /\ \E d \in NonHiddenDirs : files[d] = ReferenceLayout
    /\ \E d \in NonHiddenDirs : files[d] # ReferenceLayout

(***************************************************************************)
(* C2 as stated: strict validation succeeds exactly when there is a        *)
(* non-hidden sub-directory and every non-hidden sub-directory holds one   *)
(* Config.cfg, one mesh file and one restart file, and then returns        *)
(* exactly the non-hidden sub-directories.                                 *)
(***************************************************************************)
C2_AsStated ==
    JustValidated =>
        /\ (is_valid = "True") <=> StrictLayout
        /\ is_valid = "True" => Range(mesh_dirs) = NonHiddenDirs

(***************************************************************************)
(* C2 amended: strict validation succeeds exactly when Plot.py is in the   *)
(* configuration directory, there is a non-hidden sub-directory and every  *)
(* non-hidden sub-directory holds one Config.cfg, one mesh file and one    *)
(* restart file; it then returns exactly the non-hidden sub-directories,   *)
(* each once.  Hidden sub-directories do not enter.                        *)
(***************************************************************************)
C2_StrictValidation ==
    JustValidated =>
        /\ (is_valid = "True") <=> ("Plot.py" \in root_files /\ StrictLayout)
        /\ is_valid = "True" =>
              /\ Range(mesh_dirs) = NonHiddenDirs
              /\ Len(mesh_dirs) = Cardinality(NonHiddenDirs)

\* validation succeeded next to a hidden sub-directory that has none of the files
C2_Witness ==
    /\ JustValidated
    /\ is_valid = "True"
    /\ \E h \in subdirs : StartsWith(h, ".") /\ files[h] = {}
    /\ Len(mesh_dirs) >= 2

(***************************************************************************)
(* C3: once a solver run has a non-successful outcome, no solver is        *)
(* launched for a later mesh directory, the plot program is not launched,  *)
(* and the process has exited with code 1.                                 *)
(***************************************************************************)
C3_AbortOnFirstFailure ==
    \A i \in 1..Len(launches) :
        RunFailed(launches[i]) =>
            /\ i = Len(launches)
            /\ plot_launches = 0
            /\ pc = "exited"
            /\ exit_code = 1

\* the first of several mesh directories timed out
C3_Witness ==
    /\ Len(mesh_dirs) >= 3
    /\ solver_end[mesh_dirs[1]] = "timeout"
    /\ launches = << mesh_dirs[1] >>
    /\ pc = "exited"

(***************************************************************************)
(* C4 as stated: a solver that exits 0 without itself producing a .vtu or  *)
(* .csv file makes run_su2_simulation report failure, never success.       *)
(***************************************************************************)
C4_NoArtifactsNoSuccess ==
    \A d \in MeshNames :
        (solver_end[d] = "exit0" /\ output_files(produced[d]) = {})
            => sim_result[d] = "False"

(***************************************************************************)
(* C5 as stated: when the solver does not finish within the timeout,       *)
(* run_su2_simulation returns a failed outcome, and when it has returned   *)
(* no process started for that mesh directory (the solver or a descendant) *)
(* is still running.                                                       *)
(***************************************************************************)
C5_TimeoutLeavesNoProcess ==
    \A d \in MeshNames :
        solver_end[d] = "timeout" =>
            /\ sim_result[d] # "True"
            /\ sim_result[d] = "False" => \A p \in procs : p.dir # d

(***************************************************************************)
(* C6 as stated: whenever run_su2_simulation has returned, whatever the    *)
(* outcome, it has written a log file for that run in the mesh directory.  *)
(***************************************************************************)
C6_LogBeforeReturn ==
    \A d \in MeshNames :
        sim_result[d] \in {"True", "False"} => log_written[d] # {}

(***************************************************************************)
(* C7: within one invocation the solver is launched at most once per       *)
(* validated mesh directory, in the order of the validator's list, and a   *)
(* launch happens only after the previous run has terminated.              *)
(***************************************************************************)
C7_OncePerDirInOrder ==
    /\ Len(launches) <= Len(mesh_dirs)
    /\ \A i \in 1..Len(launches) : launches[i] = mesh_dirs[i]
    /\ \A i, j \in 1..Len(launches) : i # j => launches[i] # launches[j]
    /\ Cardinality({ p \in procs : p.kind = "solver" }) <= 1
    /\ \A i \in 1..Len(launches) :
         i < Len(launches) =>
             /\ solver_end[launches[i]] # "none"
             /\ SolverProc(launches[i]) \notin procs

\* the last of several solvers is running, after a failed-free prefix
C7_Witness ==
    /\ Len(mesh_dirs) >= 3
    /\ Len(launches) = Len(mesh_dirs)
    /\ pc = "solver"

(***************************************************************************)
(* C8: the plot program is launched at most once, and only after           *)
(* validation succeeded and every validated mesh directory has a           *)
(* successful run outcome in this invocation.                              *)
(***************************************************************************)
C8_PlotOnlyWhenAllSucceeded ==
    /\ plot_launches <= 1
    /\ plot_launches > 0 =>
         /\ is_valid = "True"
         /\ Len(mesh_dirs) > 0
         /\ \A i \in 1..Len(mesh_dirs) : sim_result[mesh_dirs[i]] = "True"
    /\ PlotProc \in procs => plot_launches = 1

\* Plot.py has been started after several successful runs
C8_Witness ==
    /\ plot_launches = 1
    /\ Len(mesh_dirs) >= 2
    /\ pc = "plotting"

(***************************************************************************)
(* C9 as stated: run_plot_script reports success exactly when the plot     *)
(* process exited 0 and at least one image it produced (Plot.py saves its  *)
(* images in plots/) exists afterwards.                                    *)
(***************************************************************************)
C9_PlotSuccessIffImage ==
    plot_end # "none" =>
        ((plot_result = "True") <=> (plot_end = "exit0" /\ plot_produced # {}))

(***************************************************************************)
(* C10 as stated: the list returned by the validator is sorted by the      *)
(* numeric value of the directory names, whatever the enumeration order.   *)
(***************************************************************************)
C10_SortedByNumericValue ==
    \A i, j \in 1..Len(mesh_dirs) :
        i < j => NumericValue(mesh_dirs[i]) < NumericValue(mesh_dirs[j])

(***************************************************************************)
(* Vocabulary of the stage properties                                      *)
(***************************************************************************)
\* the orchestrator stage a position belongs to: run() up to the end of
\* validation, the loop over the mesh directories, the plot
Stage(p) ==
    CASE p \in {"run", "validating"} -> "Validating"
      [] p \in {"loop", "solver"} -> "Executing"
      [] p = "plotting" -> "Plotting"
      [] p = "collecting" -> "Collecting"
      [] p = "exited" -> "Exited"

\* run_su2_simulation(d) reported success
RunSucceeded(d) == sim_result[d] = "True"

(***************************************************************************)
(* C11 as stated: the exit code is 0 only on full success (validation      *)
(* passed, every solver run succeeded, plotting succeeded), 1 when the     *)
(* configuration path is missing or validation failed, and 2 whenever at   *)
(* least one run succeeded and at least one failed.                        *)
(***************************************************************************)
C11_ExitCodes ==
    exit_code # NoExit =>
        /\ exit_code = 0 =>
              /\ is_valid = "True"
              /\ \A i \in 1..Len(mesh_dirs) : RunSucceeded(mesh_dirs[i])
              /\ plot_result = "True"
        /\ (~config_exists \/ is_valid = "False") => exit_code = 1
        /\ ((\E d \in Range(mesh_dirs) : RunSucceeded(d))
              /\ (\E d \in Range(mesh_dirs) : RunFailed(d))) => exit_code = 2

(***************************************************************************)
(* C12 as stated: once validation has been attempted, the process exits    *)
(* only out of a result-collection stage, however the earlier stages ended.*)
(***************************************************************************)
C12_CollectionBeforeExit ==
    [][(is_valid' # "unset" /\ pc # "exited" /\ pc' = "exited")
          => Stage(pc) = "Collecting"]_vars

(***************************************************************************)
(* C13 as stated: a solver is launched only after validation succeeded and *)
(* before the plot is started; the plot is started only when every solver  *)
(* run of the batch has terminated; the process fails (exit code 1) only   *)
(* out of the Validating stage or out of the Executing stage.              *)
(***************************************************************************)
C13_StageOrder ==
    [][ /\ Len(launches') > Len(launches) =>
              /\ is_valid = "True"
              /\ plot_launches = 0
        /\ plot_launches' > plot_launches =>
              /\ \A p \in procs : p.kind # "solver"
              /\ \A i \in 1..Len(mesh_dirs) : solver_end[mesh_dirs[i]] # "none"
        /\ (exit_code = NoExit /\ exit_code' = 1) =>
              Stage(pc) \in {"Validating", "Executing"} ]_vars

(***************************************************************************)
(* C14 as stated: when run_su2_simulation is called again on a mesh        *)
(* directory in a later invocation, the solver is launched again and the   *)
(* outcome depends on that execution only: if it exits 0 without producing *)
(* an artifact, and the only .vtu/.csv files in the directory are those    *)
(* left by earlier invocations, the call reports failure.                  *)
(***************************************************************************)
C14_SecondRunOnItsOwn ==
    \A d \in MeshNames :
        ( /\ invocation > 1
          /\ solver_end[d] = "exit0"
          /\ output_files(produced[d]) = {}
          /\ output_files(files[d] \ earlier_files[d]) = {} )
            => sim_result[d] = "False"

(***************************************************************************)
(* C18 as stated: when an invocation passed validation and ran to          *)
(* completion (solvers and Plot.py ended, Plot.py with exit code 0),       *)
(* validation in the next invocation on the same configuration directory   *)
(* succeeds and returns the same mesh directories.                         *)
(***************************************************************************)
C18_Rerunnable ==
    (completed_dirs # << >> /\ is_valid # "unset") =>
        /\ is_valid = "True"
        /\ Range(mesh_dirs) = Range(completed_dirs)

(***************************************************************************)
(* C15: when the solver exits with a non-zero code, run_su2_simulation     *)
(* reports failure and has written a log file in that mesh directory that  *)
(* contains the captured stdout and the captured stderr.                   *)
(***************************************************************************)
C15_ErrorLogHasBothStreams ==
    \A d \in MeshNames :
        solver_end[d] = "nonzero" =>
            /\ sim_result[d] = "False"
            /\ \E l \in log_written[d] :
                 /\ l.file \in files[d]
                 /\ {"stdout", "stderr"} \subseteq l.streams

\* the second solver of the batch exited non-zero
C15_Witness ==
    /\ Len(launches) = 2
    /\ solver_end[launches[2]] = "nonzero"
    /\ pc = "exited"

(***************************************************************************)
(* C16 as stated: run_su2_simulation does not launch the solver in a mesh  *)
(* directory that does not contain Config.cfg.                             *)
(***************************************************************************)
C16_NoLaunchWithoutConfig ==
    [][Len(launches') > Len(launches)
          => "Config.cfg" \in files[launches'[Len(launches')]]]_vars

(***************************************************************************)
(* C17: validate_directory_structure is a read-only probe: the step that   *)
(* validates, whether it succeeds or fails, leaves the configuration       *)
(* directory, its sub-directories and their files as they were.            *)
(***************************************************************************)
C17_ValidationReadOnly ==
    [][pc = "validating" =>
          /\ config_exists' = config_exists
          /\ root_files' = root_files
          /\ subdirs' = subdirs
          /\ files' = files]_vars

\* validation has returned a list of as many directories as there are names
C17_Witness ==
    /\ JustValidated
    /\ Len(mesh_dirs) = Cardinality(MeshNames)
    /\ pc = "loop"

(***************************************************************************)
(* C19: in the loop of process_configuration success_count equals the      *)
(* number of runs that have returned; when the loop ends without an early  *)
(* return it equals the number of validated mesh directories, so the       *)
(* "Unexpected state" branch is not taken: after a successful validation   *)
(* the process exits without starting the plot only after a failed run.    *)
(***************************************************************************)
C19_SuccessCountTracksLoop ==
    /\ pc = "loop" => (success_count = idx - 1 /\ success_count = Len(launches))
    /\ pc = "solver" => (success_count = idx - 1 /\ success_count = Len(launches) - 1)
    /\ (pc = "loop" /\ idx > Len(mesh_dirs)) => success_count = Len(mesh_dirs)
    /\ (pc = "exited" /\ is_valid = "True" /\ plot_launches = 0)
          => \E d \in Range(launches) : RunFailed(d)

\* the loop has ended without an early return
C19_Witness ==
    /\ pc = "loop"
    /\ idx > Len(mesh_dirs)
    /\ Len(mesh_dirs) >= 2

\* line.split("=", 1)[1].strip(): the value an option line carries
ValueOf(line) == Strip(SubSeq(line, FirstIndex(line, "=") + 1, Len(line)))

\* the first non-blank character of the line is '%'
CommentLine(line) ==
    \E i \in 1..Len(line) :
        /\ SubSeq(line, i, i) = "%"
        /\ \A j \in 1..(i - 1) : SubSeq(line, j, j) \in Whitespace

C21_RoundTrip ==
    /\ (cfg_pc = "updated" /\ yaml_doc = DumpOptions(parse_su2_config(cfg_before)))
          => parse_su2_config(cfg_lines) = parse_su2_config(cfg_before)
    /\ \A i \in 1..Len(cfg_lines) :
          /\ IsOptionLine(cfg_lines[i]) <=> IsParsedOption(cfg_lines[i])
          /\ IsOptionLine(cfg_lines[i]) => KeyOf(cfg_lines[i]) = ParseKey(cfg_lines[i])

\* the round trip has rewritten a file in which a key occurs twice with
\* different values, the second of them a word YAML reads as a boolean
C21_Witness ==
    /\ cfg_pc = "updated"
    /\ yaml_doc # {}
    /\ Len(cfg_before) = 2
    /\ ParseKey(cfg_before[1]) = "J" /\ ParseKey(cfg_before[2]) = "J"
    /\ ParseVal(cfg_before[1]) = "a=b"
    /\ ParseVal(cfg_before[2]) = "NO"
    /\ cfg_lines = << "J = NO\n", "J = NO\n" >>

====
